---------------------------- MODULE Spec2Model ----------------------------
(***************************************************************************)
(* Model of src/stores/testStore.ts: the cache store built by              *)
(* defineCacheStore (allItems, lastFetchedAllItems, gettingAllItems and    *)
(* the getAllItems / getSingleItem / updateItem / createItem operations,   *)
(* and the get / saveItem helpers of one itemHelpers(id) object) wired to  *)
(* the in-memory api and db of the same file.                              *)
(*                                                                         *)
(* Time is in milliseconds, as Date.getTime() reports it.  Every api       *)
(* function first awaits a setTimeout of ApiDelay ms, so pending backend   *)
(* calls are timers that fire in the order they were started, each when    *)
(* it is due.  When a timer fires, the api body after the await and the    *)
(* continuation of the store operation awaiting it run as one chain of     *)
(* microtasks, before any other timer or event handler: they are one       *)
(* action here.  Between backend calls the clock may move forward by a     *)
(* whole cache window.                                                     *)
(***************************************************************************)
EXTENDS Integers, Sequences, FiniteSets, TLC

(* ------------------------------ bounds -------------------------------- *)

\* number of store operations the callers invoke in one behaviour
MaxCalls == 3

\* number of times the clock is moved forward between events
MaxAdvances == 1

(* ----------------------- configuration (opts) ------------------------- *)

allItemsCacheMs == 1000 * 60

singleItemCacheMs == 1000 * 60

\* the delay every api function awaits before touching db
ApiDelay == 1000

\* lastFetchedAllItems before the first successful fetch (undefined)
Undefined == -1

getUid(org) == org.id

(* --------------------------- input domains ---------------------------- *)

\* identifiers the callers use: two that db holds, one that it does not
ArgIds == {1, 2, 5}

\* the id the item helpers were made for: itemHelpers(BindingId)
BindingId == 1

ArgNames == {"X"}

\* records handed to createItem (T): an id db holds already and a new one
ArgOrgs == [id : {1, 5}, name : ArgNames]

\* records handed to updateItem, a Partial<Org>: without an id, and with
\* the id of another org
ArgPatches == [name : ArgNames] \cup [id : {2}, name : ArgNames]

\* how far the clock is moved in one step: exactly a cache window
ClockSteps == {allItemsCacheMs, singleItemCacheMs}

(* ------------------------------ helpers ------------------------------- *)

\* Array.prototype.findIndex over the keys of an array, for the predicate
\* "the key is === key"; 1-based, and 0 stands for -1
FindIndex(keys, key) ==
  IF \E i \in 1..Len(keys) : keys[i] = key
  THEN CHOOSE i \in 1..Len(keys) :
         keys[i] = key /\ \A j \in 1..(i - 1) : keys[j] # key
  ELSE 0

\* getUid(item) of every store item of items, in order
Uids(items) == [i \in 1..Len(items) |-> getUid(items[i].item)]

\* { ...a, ...b }
Spread(a, b) ==
  [f \in (DOMAIN a) \cup (DOMAIN b) |-> IF f \in DOMAIN b THEN b[f] ELSE a[f]]

\* s.splice(i, 1, x)
Splice(s, i, x) == [s EXCEPT ![i] = x]

\* variant: an entry exactly cacheMs old counts as expired
cacheHasExpiredInclusive(lastFetched, cacheMs, t) == t - lastFetched >= cacheMs

\* variant: the two timestamps are subtracted the wrong way round
cacheHasExpiredSwapped(lastFetched, cacheMs, t) == lastFetched - t > cacheMs

\* new Date().getTime() - lastFetched.getTime() > cacheMs, with the clock at t
cacheHasExpired(lastFetched, cacheMs, t) == t - lastFetched > cacheMs

\* variant: a found item is written over the first entry of the store
updateStoreItemAtFront(items, newItem, t) ==
  LET storeItem == [item |-> newItem, lastFetched |-> t]
      index == FindIndex(Uids(items), getUid(newItem))
  IN  IF index = 0 THEN Append(items, storeItem)
      ELSE Splice(items, 1, storeItem)

\* the cache after updateStoreItem(newItem) runs at time t
updateStoreItem(items, newItem, t) ==
  LET storeItem == [item |-> newItem, lastFetched |-> t]
      index == FindIndex(Uids(items), getUid(newItem))
  IN  IF index = 0 THEN Append(items, storeItem)
      ELSE Splice(items, index, storeItem)

(* ------------------------------- state -------------------------------- *)

VARIABLES
  db,                   \* db.orgs
  allItems,             \* allItems.value: sequence of StoreItem
  lastFetchedAllItems,  \* lastFetchedAllItems.value, or Undefined
  gettingAllItems,      \* gettingAllItems.value
  now,                  \* new Date().getTime()
  timers,               \* backend calls whose setTimeout has not fired yet
  calls,                \* store operations invoked so far
  apiCalls,             \* backend (opts.*) calls made so far
  advances,             \* clock advances so far
  last,                 \* what the last step did and what it returned
  bound,                \* item.value of itemHelpers(BindingId): << >> when
                        \* undefined, else << the org >>
  getting,              \* getting.value of itemHelpers(BindingId)
  saving                \* saving.value of itemHelpers(BindingId)

\* the refs of the item helpers
binding == <<bound, getting, saving>>

vars == <<db, allItems, lastFetchedAllItems, gettingAllItems, now, timers,
          calls, apiCalls, advances, last, bound, getting, saving>>

\* What a step did: the store operation; its phase ("cached": answered from
\* the cache, "issued": suspended on a backend call, "settled": resumed
\* after one); what the backend call did ("ok", "absent", "error"); how the
\* promise the caller holds stands ("pending", "value", "undefined",
\* "rejected"); the id argument; the record returned; the array returned;
\* what a write-back replaced (the entries, for getAllItems; the bound
\* item, for get).
Step(op, phase, backend, result, id, item, items, prev) ==
  [op |-> op, phase |-> phase, backend |-> backend, result |-> result,
   id |-> id, item |-> item, items |-> items, prev |-> prev]

\* a backend call started now: its setTimeout is due ApiDelay ms from now
Timer(op, id, item) ==
  [op |-> op, id |-> id, item |-> item, due |-> now + ApiDelay]

Init ==
  /\ db = << [id |-> 1, name |-> "Org 1"], [id |-> 2, name |-> "Org 2"],
             [id |-> 3, name |-> "Org 3"], [id |-> 4, name |-> "Org 4"] >>
  /\ allItems = << >>
  /\ lastFetchedAllItems = Undefined
  /\ gettingAllItems = FALSE
  /\ now = 0
  /\ timers = << >>
  /\ calls = 0
  /\ apiCalls = 0
  /\ advances = 0
  /\ last = Step("none", "none", "none", "none", 0, << >>, << >>, << >>)
  /\ bound = << >>
  /\ getting = TRUE
  /\ saving = FALSE

(* --------------------------- the clock -------------------------------- *)

\* time passes while no backend call is pending
Advance(d) ==
  /\ advances < MaxAdvances
  /\ timers = << >>
  /\ now' = now + d
  /\ advances' = advances + 1
  /\ last' = Step("advance", "none", "none", "none", 0, << >>, << >>, << >>)
  /\ UNCHANGED <<binding, db, allItems, lastFetchedAllItems, gettingAllItems, timers,
                 calls, apiCalls>>

\* the time at which the oldest pending timer fires
FireTime == Head(timers).due

(* ---------------------------- getAllItems ----------------------------- *)

\* variant: a cache hit renews the time of the last fetch
GetAllItemsCachedTouching ==
  /\ calls < MaxCalls
  /\ lastFetchedAllItems # Undefined
  /\ ~cacheHasExpired(lastFetchedAllItems, allItemsCacheMs, now)
  /\ gettingAllItems' = FALSE
  /\ lastFetchedAllItems' = now
  /\ calls' = calls + 1
  /\ last' = Step("getAllItems", "cached", "none", "value", 0, << >>,
                  allItems, << >>)
  /\ UNCHANGED <<binding, db, allItems, now, timers, apiCalls, advances>>

\* getAllItems() with a valid cache: returns allItems.value
GetAllItemsCached ==
  /\ calls < MaxCalls
  /\ lastFetchedAllItems # Undefined
  /\ ~cacheHasExpired(lastFetchedAllItems, allItemsCacheMs, now)
  /\ gettingAllItems' = FALSE
  /\ calls' = calls + 1
  /\ last' = Step("getAllItems", "cached", "none", "value", 0, << >>,
                  allItems, << >>)
  /\ UNCHANGED <<binding, db, allItems, lastFetchedAllItems, now, timers, apiCalls,
                 advances>>

\* getAllItems() without a valid cache: up to the await of opts.getAllItems()
GetAllItemsFetch ==
  /\ calls < MaxCalls
  /\ ~(/\ lastFetchedAllItems # Undefined
       /\ ~cacheHasExpired(lastFetchedAllItems, allItemsCacheMs, now))
  /\ gettingAllItems' = TRUE
  /\ timers' = Append(timers, Timer("getAllItems", 0, << >>))
  /\ calls' = calls + 1
  /\ apiCalls' = apiCalls + 1
  /\ last' = Step("getAllItems", "issued", "none", "pending", 0, << >>,
                  << >>, << >>)
  /\ UNCHANGED <<binding, db, allItems, lastFetchedAllItems, now, advances>>

\* variant: the fetched items are pushed behind the entries already stored
StoreItemsAppended(items, t) ==
  allItems \o [i \in 1..Len(items) |-> [item |-> items[i], lastFetched |-> t]]

\* variant: the stored items carry no fetch time of their own (the epoch)
StoreItemsUnstamped(items, t) ==
  [i \in 1..Len(items) |-> [item |-> items[i], lastFetched |-> 0]]

\* items.map((item) => ({ item, lastFetched: new Date() })) at time t
StoreItems(items, t) ==
  [i \in 1..Len(items) |-> [item |-> items[i], lastFetched |-> t]]

\* variant: a fetch that another fetch overtook does not write its result
GetAllItemsResolveFirstWins ==
  /\ timers # << >>
  /\ Head(timers).op = "getAllItems"
  /\ LET items == db
         overtaken == lastFetchedAllItems >= FireTime - ApiDelay
     IN  /\ now' = FireTime
         /\ allItems' = IF overtaken THEN allItems
                        ELSE StoreItems(items, FireTime)
         /\ lastFetchedAllItems' = FireTime
         /\ gettingAllItems' = FALSE
         /\ last' = Step("getAllItems", "settled", "ok", "value", 0, << >>,
                         allItems', allItems)
  /\ timers' = Tail(timers)
  /\ UNCHANGED <<binding, db, calls, apiCalls, advances>>

\* the timer of api.orgs.get fires: [...db.orgs] is returned and written back
GetAllItemsResolve ==
  /\ timers # << >>
  /\ Head(timers).op = "getAllItems"
  /\ LET items == db
     IN  /\ now' = FireTime
         /\ allItems' = StoreItems(items, FireTime)
         /\ lastFetchedAllItems' = FireTime
         /\ gettingAllItems' = FALSE
         /\ last' = Step("getAllItems", "settled", "ok", "value", 0, << >>,
                         StoreItems(items, FireTime), allItems)
  /\ timers' = Tail(timers)
  /\ UNCHANGED <<binding, db, calls, apiCalls, advances>>

(* --------------------------- getSingleItem ---------------------------- *)

\* allItems.value.find(({ item }) => getUid(item) === id), as an index;
\* 0 when there is none
ExistingIndex(id) == FindIndex(Uids(allItems), id)

\* variant: an entry is served from the cache whatever its age
SingleItemCacheValidAnyAge(id) == ExistingIndex(id) # 0

\* existingItem && !cacheHasExpired(existingItem.lastFetched, singleItemCacheMs)
SingleItemCacheValid(id) ==
  /\ ExistingIndex(id) # 0
  /\ ~cacheHasExpired(allItems[ExistingIndex(id)].lastFetched,
                      singleItemCacheMs, now)

\* getSingleItem(id) with a valid cache entry: returns a copy of the item
GetSingleItemCached(id) ==
  /\ calls < MaxCalls
  /\ SingleItemCacheValid(id)
  /\ calls' = calls + 1
  /\ last' = Step("getSingleItem", "cached", "none", "value", id,
                  << allItems[ExistingIndex(id)].item >>, << >>, << >>)
  /\ UNCHANGED <<binding, db, allItems, lastFetchedAllItems, gettingAllItems, now,
                 timers, apiCalls, advances>>

\* getSingleItem(id) otherwise: up to the await of opts.getItem(id)
GetSingleItemFetch(id) ==
  /\ calls < MaxCalls
  /\ ~SingleItemCacheValid(id)
  /\ timers' = Append(timers, Timer("getSingleItem", id, << >>))
  /\ calls' = calls + 1
  /\ apiCalls' = apiCalls + 1
  /\ last' = Step("getSingleItem", "issued", "none", "pending", id, << >>,
                  << >>, << >>)
  /\ UNCHANGED <<binding, db, allItems, lastFetchedAllItems, gettingAllItems, now,
                 advances>>

\* db.orgs.find((org) => org.id === id), as an index; 0 when there is none
DbIndex(id) == FindIndex([i \in 1..Len(db) |-> db[i].id], id)

\* the timer of api.org(id).get fires and the org is found
GetSingleItemResolve ==
  /\ timers # << >>
  /\ Head(timers).op = "getSingleItem"
  /\ DbIndex(Head(timers).id) # 0
  /\ LET freshItem == db[DbIndex(Head(timers).id)]
     IN  /\ now' = FireTime
         /\ allItems' = updateStoreItem(allItems, freshItem, FireTime)
         /\ last' = Step("getSingleItem", "settled", "ok", "value",
                         Head(timers).id, << freshItem >>, << >>, << >>)
  /\ timers' = Tail(timers)
  /\ UNCHANGED <<binding, db, lastFetchedAllItems, gettingAllItems, calls, apiCalls,
                 advances>>

\* variant: without the try/catch, "Item not found" reaches the caller
GetSingleItemNotFoundUncaught ==
  /\ timers # << >>
  /\ Head(timers).op = "getSingleItem"
  /\ DbIndex(Head(timers).id) = 0
  /\ now' = FireTime
  /\ last' = Step("getSingleItem", "settled", "absent", "rejected",
                  Head(timers).id, << >>, << >>, << >>)
  /\ timers' = Tail(timers)
  /\ UNCHANGED <<binding, db, allItems, lastFetchedAllItems, gettingAllItems, calls,
                 apiCalls, advances>>

\* the timer fires and api.org(id).get returns undefined: "Item not found"
\* is thrown and caught, and getSingleItem returns undefined
GetSingleItemNotFound ==
  /\ timers # << >>
  /\ Head(timers).op = "getSingleItem"
  /\ DbIndex(Head(timers).id) = 0
  /\ now' = FireTime
  /\ last' = Step("getSingleItem", "settled", "absent", "undefined",
                  Head(timers).id, << >>, << >>, << >>)
  /\ timers' = Tail(timers)
  /\ UNCHANGED <<binding, db, allItems, lastFetchedAllItems, gettingAllItems, calls,
                 apiCalls, advances>>

(* ----------------------------- updateItem ----------------------------- *)

\* updateItem(id, item): up to the await of opts.updateItem(id, item)
UpdateItemCall(id, item) ==
  /\ calls < MaxCalls
  /\ timers' = Append(timers, Timer("updateItem", id, << item >>))
  /\ calls' = calls + 1
  /\ apiCalls' = apiCalls + 1
  /\ last' = Step("updateItem", "issued", "none", "pending", id, << >>,
                  << >>, << >>)
  /\ UNCHANGED <<binding, db, allItems, lastFetchedAllItems, gettingAllItems, now,
                 advances>>

\* variant: the updated org is sent to the api but not written to the store
UpdateItemResolveNoWriteBack ==
  /\ timers # << >>
  /\ Head(timers).op = "updateItem"
  /\ DbIndex(Head(timers).id) # 0
  /\ LET existingOrgIndex == DbIndex(Head(timers).id)
         newOrg == Spread(db[existingOrgIndex], Head(timers).item[1])
     IN  /\ now' = FireTime
         /\ db' = Splice(db, existingOrgIndex, newOrg)
         /\ last' = Step("updateItem", "settled", "ok", "value",
                         Head(timers).id, << newOrg >>, << >>, << >>)
  /\ timers' = Tail(timers)
  /\ UNCHANGED <<binding, allItems, lastFetchedAllItems, gettingAllItems,
                 calls, apiCalls, advances>>

\* variant: the store entry is matched by the id argument of updateItem
UpdateItemResolveByInputId ==
  /\ timers # << >>
  /\ Head(timers).op = "updateItem"
  /\ DbIndex(Head(timers).id) # 0
  /\ LET existingOrgIndex == DbIndex(Head(timers).id)
         newOrg == Spread(db[existingOrgIndex], Head(timers).item[1])
         index == FindIndex(Uids(allItems), Head(timers).id)
         storeItem == [item |-> newOrg, lastFetched |-> FireTime]
     IN  /\ now' = FireTime
         /\ db' = Splice(db, existingOrgIndex, newOrg)
         /\ allItems' = IF index = 0 THEN Append(allItems, storeItem)
                        ELSE Splice(allItems, index, storeItem)
         /\ last' = Step("updateItem", "settled", "ok", "value",
                         Head(timers).id, << newOrg >>, << >>, << >>)
  /\ timers' = Tail(timers)
  /\ UNCHANGED <<binding, lastFetchedAllItems, gettingAllItems, calls,
                 apiCalls, advances>>

\* the timer of api.org(id).update fires and the org exists
UpdateItemResolve ==
  /\ timers # << >>
  /\ Head(timers).op = "updateItem"
  /\ DbIndex(Head(timers).id) # 0
  /\ LET existingOrgIndex == DbIndex(Head(timers).id)
         newOrg == Spread(db[existingOrgIndex], Head(timers).item[1])
     IN  /\ now' = FireTime
         /\ db' = Splice(db, existingOrgIndex, newOrg)
         /\ allItems' = updateStoreItem(allItems, newOrg, FireTime)
         /\ last' = Step("updateItem", "settled", "ok", "value",
                         Head(timers).id, << newOrg >>, << >>, << >>)
  /\ timers' = Tail(timers)
  /\ UNCHANGED <<binding, lastFetchedAllItems, gettingAllItems, calls, apiCalls,
                 advances>>

\* the timer fires and api.org(id).update throws "Org not found": updateItem
\* catches it and returns undefined
UpdateItemNotFound ==
  /\ timers # << >>
  /\ Head(timers).op = "updateItem"
  /\ DbIndex(Head(timers).id) = 0
  /\ now' = FireTime
  /\ last' = Step("updateItem", "settled", "error", "undefined",
                  Head(timers).id, << >>, << >>, << >>)
  /\ timers' = Tail(timers)
  /\ UNCHANGED <<binding, db, allItems, lastFetchedAllItems, gettingAllItems, calls,
                 apiCalls, advances>>

(* ----------------------------- createItem ----------------------------- *)

\* createItem(item): up to the await of opts.createItem(item)
CreateItemCall(item) ==
  /\ calls < MaxCalls
  /\ timers' = Append(timers, Timer("createItem", 0, << item >>))
  /\ calls' = calls + 1
  /\ apiCalls' = apiCalls + 1
  /\ last' = Step("createItem", "issued", "none", "pending", 0, << >>,
                  << >>, << >>)
  /\ UNCHANGED <<binding, db, allItems, lastFetchedAllItems, gettingAllItems, now,
                 advances>>

\* the timer of api.orgs.create fires: the org is pushed and written back
CreateItemResolve ==
  /\ timers # << >>
  /\ Head(timers).op = "createItem"
  /\ LET org == Head(timers).item[1]
     IN  /\ now' = FireTime
         /\ db' = Append(db, org)
         /\ allItems' = updateStoreItem(allItems, org, FireTime)
         /\ last' = Step("createItem", "settled", "ok", "value", 0,
                         << org >>, << >>, << >>)
  /\ timers' = Tail(timers)
  /\ UNCHANGED <<binding, lastFetchedAllItems, gettingAllItems, calls, apiCalls,
                 advances>>

(* ------------------------- backend rejections ------------------------- *)

\* variant: a failed fetch of all items also empties the store
BackendRejectsClearing ==
  /\ timers # << >>
  /\ Head(timers).op \notin {"get", "saveItem"}
  /\ now' = FireTime
  /\ gettingAllItems' = IF Head(timers).op = "getAllItems" THEN FALSE
                        ELSE gettingAllItems
  /\ allItems' = IF Head(timers).op = "getAllItems" THEN << >> ELSE allItems
  /\ last' = Step(Head(timers).op, "settled", "error", "undefined",
                  Head(timers).id, << >>, << >>, << >>)
  /\ timers' = Tail(timers)
  /\ UNCHANGED <<binding, db, lastFetchedAllItems, calls, apiCalls, advances>>

\* variant: the catch block of getAllItems does not reset gettingAllItems
BackendRejectsKeepingFlag ==
  /\ timers # << >>
  /\ Head(timers).op \notin {"get", "saveItem"}
  /\ now' = FireTime
  /\ last' = Step(Head(timers).op, "settled", "error", "undefined",
                  Head(timers).id, << >>, << >>, << >>)
  /\ timers' = Tail(timers)
  /\ UNCHANGED <<binding, db, allItems, lastFetchedAllItems, gettingAllItems,
                 calls, apiCalls, advances>>

\* the promise an opts function returned rejects: the catch block of the
\* awaiting operation logs the error and the operation returns undefined;
\* getAllItems also resets gettingAllItems
BackendRejects ==
  /\ timers # << >>
  /\ Head(timers).op \notin {"get", "saveItem"}
  /\ now' = FireTime
  /\ gettingAllItems' = IF Head(timers).op = "getAllItems" THEN FALSE
                        ELSE gettingAllItems
  /\ last' = Step(Head(timers).op, "settled", "error", "undefined",
                  Head(timers).id, << >>, << >>, << >>)
  /\ timers' = Tail(timers)
  /\ UNCHANGED <<binding, db, allItems, lastFetchedAllItems, calls, apiCalls, advances>>

(* ---------------------------- itemHelpers ----------------------------- *)

\* get() when getSingleItem answers from the cache: the copy is bound
BindingGetCached ==
  /\ calls < MaxCalls
  /\ SingleItemCacheValid(BindingId)
  /\ bound' = << allItems[ExistingIndex(BindingId)].item >>
  /\ getting' = FALSE
  /\ calls' = calls + 1
  /\ last' = Step("get", "cached", "none", "value", BindingId,
                  << allItems[ExistingIndex(BindingId)].item >>, << >>, bound)
  /\ UNCHANGED <<db, allItems, lastFetchedAllItems, gettingAllItems, now,
                 timers, apiCalls, advances, saving>>

\* get() otherwise: up to the await of opts.getItem(id) inside getSingleItem
BindingGetFetch ==
  /\ calls < MaxCalls
  /\ ~SingleItemCacheValid(BindingId)
  /\ getting' = TRUE
  /\ timers' = Append(timers, Timer("get", BindingId, << >>))
  /\ calls' = calls + 1
  /\ apiCalls' = apiCalls + 1
  /\ last' = Step("get", "issued", "none", "pending", BindingId, << >>,
                  << >>, << >>)
  /\ UNCHANGED <<db, allItems, lastFetchedAllItems, gettingAllItems, now,
                 advances, bound, saving>>

\* the timer of api.org(id).get fires for get() and the org is found
BindingGetResolve ==
  /\ timers # << >>
  /\ Head(timers).op = "get"
  /\ DbIndex(Head(timers).id) # 0
  /\ LET freshItem == db[DbIndex(Head(timers).id)]
     IN  /\ now' = FireTime
         /\ allItems' = updateStoreItem(allItems, freshItem, FireTime)
         /\ bound' = << freshItem >>
         /\ getting' = FALSE
         /\ last' = Step("get", "settled", "ok", "value", Head(timers).id,
                         << freshItem >>, << >>, bound)
  /\ timers' = Tail(timers)
  /\ UNCHANGED <<db, lastFetchedAllItems, gettingAllItems, calls, apiCalls,
                 advances, saving>>

\* variant: get() leaves the flag alone when getSingleItem returns undefined
BindingGetNotFoundStuck ==
  /\ timers # << >>
  /\ Head(timers).op = "get"
  /\ DbIndex(Head(timers).id) = 0
  /\ now' = FireTime
  /\ bound' = << >>
  /\ last' = Step("get", "settled", "absent", "undefined", Head(timers).id,
                  << >>, << >>, bound)
  /\ timers' = Tail(timers)
  /\ UNCHANGED <<db, allItems, lastFetchedAllItems, gettingAllItems, calls,
                 apiCalls, advances, getting, saving>>

\* the timer fires for get() and api.org(id).get returns undefined:
\* getSingleItem returns undefined, which is bound
BindingGetNotFound ==
  /\ timers # << >>
  /\ Head(timers).op = "get"
  /\ DbIndex(Head(timers).id) = 0
  /\ now' = FireTime
  /\ bound' = << >>
  /\ getting' = FALSE
  /\ last' = Step("get", "settled", "absent", "undefined", Head(timers).id,
                  << >>, << >>, bound)
  /\ timers' = Tail(timers)
  /\ UNCHANGED <<db, allItems, lastFetchedAllItems, gettingAllItems, calls,
                 apiCalls, advances, saving>>

\* saveItem() with nothing bound: returns at once
BindingSaveNothing ==
  /\ calls < MaxCalls
  /\ bound = << >>
  /\ calls' = calls + 1
  /\ last' = Step("saveItem", "cached", "none", "undefined", BindingId,
                  << >>, << >>, << >>)
  /\ UNCHANGED <<db, allItems, lastFetchedAllItems, gettingAllItems, now,
                 timers, apiCalls, advances, binding>>

\* saveItem() with a bound item: up to the await of opts.updateItem inside
\* updateItem(getUid(item.value), item.value)
BindingSaveCall ==
  /\ calls < MaxCalls
  /\ bound # << >>
  /\ saving' = TRUE
  /\ timers' = Append(timers, Timer("saveItem", getUid(bound[1]), bound))
  /\ calls' = calls + 1
  /\ apiCalls' = apiCalls + 1
  /\ last' = Step("saveItem", "issued", "none", "pending", getUid(bound[1]),
                  << >>, << >>, << >>)
  /\ UNCHANGED <<db, allItems, lastFetchedAllItems, gettingAllItems, now,
                 advances, bound, getting>>

\* the timer of api.org(id).update fires for saveItem() and the org exists
BindingSaveResolve ==
  /\ timers # << >>
  /\ Head(timers).op = "saveItem"
  /\ DbIndex(Head(timers).id) # 0
  /\ LET existingOrgIndex == DbIndex(Head(timers).id)
         newOrg == Spread(db[existingOrgIndex], Head(timers).item[1])
     IN  /\ now' = FireTime
         /\ db' = Splice(db, existingOrgIndex, newOrg)
         /\ allItems' = updateStoreItem(allItems, newOrg, FireTime)
         /\ last' = Step("saveItem", "settled", "ok", "value",
                         Head(timers).id, << newOrg >>, << >>, << >>)
  /\ saving' = FALSE
  /\ timers' = Tail(timers)
  /\ UNCHANGED <<lastFetchedAllItems, gettingAllItems, calls, apiCalls,
                 advances, bound, getting>>

\* the timer fires for saveItem() and api.org(id).update throws "Org not
\* found": updateItem catches it and returns undefined, saveItem goes on
BindingSaveNotFound ==
  /\ timers # << >>
  /\ Head(timers).op = "saveItem"
  /\ DbIndex(Head(timers).id) = 0
  /\ now' = FireTime
  /\ saving' = FALSE
  /\ last' = Step("saveItem", "settled", "error", "undefined",
                  Head(timers).id, << >>, << >>, << >>)
  /\ timers' = Tail(timers)
  /\ UNCHANGED <<db, allItems, lastFetchedAllItems, gettingAllItems, calls,
                 apiCalls, advances, bound, getting>>

\* variant: saveItem() stops at a failed update and leaves saving set
BindingBackendRejectsStuck ==
  /\ timers # << >>
  /\ Head(timers).op \in {"get", "saveItem"}
  /\ now' = FireTime
  /\ bound' = IF Head(timers).op = "get" THEN << >> ELSE bound
  /\ getting' = IF Head(timers).op = "get" THEN FALSE ELSE getting
  /\ last' = Step(Head(timers).op, "settled", "error", "undefined",
                  Head(timers).id, << >>, << >>,
                  IF Head(timers).op = "get" THEN bound ELSE << >>)
  /\ timers' = Tail(timers)
  /\ UNCHANGED <<db, allItems, lastFetchedAllItems, gettingAllItems, calls,
                 apiCalls, advances, saving>>

\* the promise of opts.getItem or opts.updateItem rejects under get() or
\* saveItem(): getSingleItem / updateItem catch it and return undefined, and
\* the helper goes on after its await
BindingBackendRejects ==
  /\ timers # << >>
  /\ Head(timers).op \in {"get", "saveItem"}
  /\ now' = FireTime
  /\ bound' = IF Head(timers).op = "get" THEN << >> ELSE bound
  /\ getting' = IF Head(timers).op = "get" THEN FALSE ELSE getting
  /\ saving' = IF Head(timers).op = "saveItem" THEN FALSE ELSE saving
  /\ last' = Step(Head(timers).op, "settled", "error", "undefined",
                  Head(timers).id, << >>, << >>,
                  IF Head(timers).op = "get" THEN bound ELSE << >>)
  /\ timers' = Tail(timers)
  /\ UNCHANGED <<db, allItems, lastFetchedAllItems, gettingAllItems, calls,
                 apiCalls, advances>>

(* ------------------------------- system ------------------------------- *)

Next ==
  \/ \E d \in ClockSteps : Advance(d)
  \/ GetAllItemsCached
  \/ GetAllItemsFetch
  \/ GetAllItemsResolve
  \/ \E id \in ArgIds : GetSingleItemCached(id)
  \/ \E id \in ArgIds : GetSingleItemFetch(id)
  \/ GetSingleItemResolve
  \/ GetSingleItemNotFound
  \/ \E id \in ArgIds, item \in ArgPatches : UpdateItemCall(id, item)
  \/ UpdateItemResolve
  \/ UpdateItemNotFound
  \/ \E item \in ArgOrgs : CreateItemCall(item)
  \/ CreateItemResolve
  \/ BackendRejects
  \/ BindingGetCached
  \/ BindingGetFetch
  \/ BindingGetResolve
  \/ BindingGetNotFound
  \/ BindingSaveNothing
  \/ BindingSaveCall
  \/ BindingSaveResolve
  \/ BindingSaveNotFound
  \/ BindingBackendRejects

Spec == Init /\ [][Next]_vars

(* ------------------------------ properties ---------------------------- *)

\* this step is the synchronous part of a call of the store operation op
CallStep(op) == calls' = calls + 1 /\ last'.op = op

\* this step is the oldest backend call settling, resuming operation op
SettleStep(op) ==
  timers # << >> /\ timers' = Tail(timers) /\ Head(timers).op = op

\* the entries of s whose identifier is not id, in order
Others(s, id) == SelectSeq(s, LAMBDA e : e.item.id # id)

\* the number of entries of s whose identifier is id
Count(s, id) == Cardinality({i \in 1..Len(s) : s[i].item.id = id})

\* the position of the first entry of s whose identifier is id, 0 if none
First(s, id) ==
  IF Count(s, id) = 0 THEN 0
  ELSE CHOOSE i \in 1..Len(s) :
         s[i].item.id = id /\ \A j \in 1..(i - 1) : s[j].item.id # id

\* the records of db, as a set
DbRecords == {db[i] : i \in 1..Len(db)}

\* C1: in every reachable state the cached entry sequence holds at most one
\* entry per identifier.
C1_AtMostOneEntryPerIdentifier ==
  \A i, j \in 1..Len(allItems) :
    allItems[i].item.id = allItems[j].item.id => i = j

\* C2: a getAllItems called when at most allItemsCacheMs have elapsed since
\* the last successful fetch of all items makes no backend call and returns
\* the cached sequence, which it leaves as it was.
C2_FetchAllWithinTtlUsesCache ==
  [][ ( /\ CallStep("getAllItems")
        /\ lastFetchedAllItems # Undefined
        /\ now - lastFetchedAllItems <= allItemsCacheMs )
      => ( /\ apiCalls' = apiCalls
           /\ timers' = timers
           /\ allItems' = allItems
           /\ lastFetchedAllItems' = lastFetchedAllItems
           /\ last'.result = "value"
           /\ last'.items = allItems ) ]_vars

\* C2 happens: a getAllItems was answered from a non-empty cache exactly
\* allItemsCacheMs after the fetch that filled it
C2_Witness ==
  /\ last.op = "getAllItems" /\ last.phase = "cached"
  /\ now - lastFetchedAllItems = allItemsCacheMs
  /\ last.items = allItems
  /\ allItems # << >>

\* C3: a getAllItems called when more than allItemsCacheMs have elapsed since
\* the last successful fetch, or when there was none, starts exactly one
\* backend fetch of all items; when that fetch succeeds, the records it
\* returned become the cache contents, in order, the call returns them, no
\* further backend call is made, and lastFetchedAllItems is the time of
\* completion.
C3_FetchAllAfterTtlRefetches ==
  [][ /\ ( ( /\ CallStep("getAllItems")
             /\ \/ lastFetchedAllItems = Undefined
                \/ now - lastFetchedAllItems > allItemsCacheMs )
           => ( /\ apiCalls' = apiCalls + 1
                /\ Len(timers') = Len(timers) + 1
                /\ timers'[Len(timers')].op = "getAllItems"
                /\ allItems' = allItems
                /\ last'.result = "pending" ) )
      /\ ( ( SettleStep("getAllItems") /\ last'.backend = "ok" )
           => ( /\ apiCalls' = apiCalls
                /\ [i \in 1..Len(allItems') |-> allItems'[i].item] = db
                /\ \A i \in 1..Len(allItems') : allItems'[i].lastFetched = now'
                /\ last'.result = "value"
                /\ last'.items = allItems'
                /\ lastFetchedAllItems' = now' ) ) ]_vars

\* C3 happens: a fetch of all items completed and replaced entries that were
\* all older than allItemsCacheMs
C3_Witness ==
  /\ last.op = "getAllItems" /\ last.phase = "settled" /\ last.result = "value"
  /\ lastFetchedAllItems = now
  /\ last.prev # << >>
  /\ \A i \in 1..Len(last.prev) : now - last.prev[i].lastFetched > allItemsCacheMs
  /\ apiCalls >= 2

\* C4: whenever no store operation is in flight, every cached entry's item
\* equals the record db holds for that identifier.
C4_CacheMatchesBackendWhenIdle ==
  timers = << >> =>
    \A i \in 1..Len(allItems) :
      /\ DbIndex(allItems[i].item.id) # 0
      /\ db[DbIndex(allItems[i].item.id)] = allItems[i].item

\* C5: when the backend call of getSingleItem(id) fails or finds nothing, the
\* entries and lastFetchedAllItems stay as they were and getSingleItem
\* resolves to undefined.
C5_FetchOneFailureContained ==
  [][ ( /\ SettleStep("getSingleItem")
        /\ \/ last'.backend \in {"absent", "error"}
           \/ DbIndex(Head(timers).id) = 0 )
      => ( /\ allItems' = allItems
           /\ lastFetchedAllItems' = lastFetchedAllItems
           /\ last'.result = "undefined"
           /\ last'.item = << >> ) ]_vars

\* C5 happens: a getSingleItem for an id db does not hold settled while the
\* cache held entries
C5_Witness ==
  /\ last.op = "getSingleItem" /\ last.phase = "settled"
  /\ last.backend = "absent"
  /\ DbIndex(last.id) = 0
  /\ allItems # << >>

\* C6: when the backend call of getAllItems, updateItem or createItem fails,
\* the operation resolves to undefined and the entries and
\* lastFetchedAllItems are what they were just before it resumed.
C6_WriteFailureContained ==
  [][ ( /\ \/ SettleStep("getAllItems")
           \/ SettleStep("updateItem")
           \/ SettleStep("createItem")
        /\ \/ last'.backend = "error"
           \/ Head(timers).op = "updateItem" /\ DbIndex(Head(timers).id) = 0 )
      => ( /\ allItems' = allItems
           /\ lastFetchedAllItems' = lastFetchedAllItems
           /\ last'.result = "undefined"
           /\ last'.item = << >> /\ last'.items = << >> ) ]_vars

\* C6 happens: a fetch of all items failed while the cache held the entries
\* of an earlier fetch
C6_Witness ==
  /\ last.op = "getAllItems" /\ last.phase = "settled"
  /\ last.backend = "error"
  /\ lastFetchedAllItems # Undefined
  /\ allItems # << >>

\* C7: a getSingleItem that returns a record for identifier A, from the cache
\* or from the backend, leaves the entries of every other identifier as
\* they were: same items, same lastFetched, same order among themselves.
C7_FetchOneLeavesOtherEntries ==
  [][ ( /\ CallStep("getSingleItem") \/ SettleStep("getSingleItem")
        /\ last'.result = "value" )
      => Others(allItems', last'.id) = Others(allItems, last'.id) ]_vars

\* C7 happens: a getSingleItem replaced, from the backend, an entry that
\* stands between entries of other identifiers
C7_Witness ==
  /\ last.op = "getSingleItem" /\ last.phase = "settled" /\ last.result = "value"
  /\ \E i \in 2..(Len(allItems) - 1) :
       /\ allItems[i].item.id = last.id
       /\ allItems[i].lastFetched = now
       /\ allItems[i - 1].item.id # last.id
       /\ allItems[i + 1].item.id # last.id

\* C8: after an upsert of a record, a second upsert of any record with the
\* same identifier leaves exactly one entry for that identifier, holding the
\* second record at the position the first upsert gave it, and the sequence
\* as long as it was.
C8_UpsertTwiceLeavesOneEntry ==
  [][ ( /\ \/ SettleStep("getSingleItem")
           \/ SettleStep("updateItem")
           \/ SettleStep("createItem")
        /\ last'.backend = "ok" )
      => \A second \in [id : {last'.item[1].id}, name : {"X", "Y"}] :
           LET first == allItems'
               twice == updateStoreItem(first, second, now')
               pos == First(first, second.id)
           IN  /\ pos # 0
               /\ Len(twice) = Len(first)
               /\ twice[pos].item = second
               /\ Count(twice, second.id) = 1 ]_vars

\* C9: a successful backend fetch of all items that returns N records leaves
\* exactly N entries, in the order returned, whatever the cache held.
C9_FetchAllReplacesWithExactlyN ==
  [][ ( SettleStep("getAllItems") /\ last'.backend = "ok" )
      => ( /\ Len(allItems') = Len(db)
           /\ \A i \in 1..Len(db) : allItems'[i].item = db[i] ) ]_vars

\* C9 happens: a fetch of all items replaced a cache that held an entry
\* whose record is not among the records returned
C9_Witness ==
  /\ last.op = "getAllItems" /\ last.phase = "settled" /\ last.result = "value"
  /\ Len(allItems) = Len(db)
  /\ \E i \in 1..Len(last.prev) : last.prev[i].item \notin DbRecords

\* C10: getSingleItem(id) that finds an entry for id at most singleItemCacheMs
\* old makes no backend call, leaves the cache as it was and returns a copy
\* of the cached record; with no entry, or an older one, it starts exactly
\* one backend fetch of that id.
C10_FetchOneTtl ==
  [][ CallStep("getSingleItem")
      => LET id == last'.id
             found == First(allItems, id)
         IN  IF found # 0 /\ now - allItems[found].lastFetched <= singleItemCacheMs
             THEN /\ apiCalls' = apiCalls
                  /\ timers' = timers
                  /\ allItems' = allItems
                  /\ last'.result = "value"
                  /\ last'.item = << allItems[found].item >>
             ELSE /\ apiCalls' = apiCalls + 1
                  /\ Len(timers') = Len(timers) + 1
                  /\ timers'[Len(timers')].op = "getSingleItem"
                  /\ timers'[Len(timers')].id = id
                  /\ allItems' = allItems
                  /\ last'.result = "pending" ]_vars

\* C10 happens: a getSingleItem was answered from an entry exactly
\* singleItemCacheMs old
C10_Witness ==
  /\ last.op = "getSingleItem" /\ last.phase = "cached"
  /\ \E i \in 1..Len(allItems) :
       /\ allItems[i].item.id = last.id
       /\ now - allItems[i].lastFetched = singleItemCacheMs
       /\ last.item = << allItems[i].item >>

\* the items of the entries of s, in order
Items(s) == [i \in 1..Len(s) |-> s[i].item]

\* this step resumes updateItem after a successful backend update, called
\* directly or from saveItem()
UpdateSucceeds ==
  /\ SettleStep("updateItem") \/ SettleStep("saveItem")
  /\ last'.backend = "ok"

\* C11 as stated: after updateItem(id, patch) succeeds with record R, the
\* entry found for id holds R, and a getSingleItem(id) that follows is
\* answered with R without a backend call.
C11_UpdateThenFetchOneById ==
  [][ /\ UpdateSucceeds
         => LET found == First(allItems', Head(timers).id)
            IN  /\ found # 0
                /\ allItems'[found].item = last'.item[1]
      /\ ( /\ last.op = "updateItem" /\ last.phase = "settled"
           /\ last.result = "value"
           /\ CallStep("getSingleItem") /\ last'.id = last.id )
         => ( /\ apiCalls' = apiCalls
              /\ last'.result = "value"
              /\ last'.item = last.item ) ]_vars

\* C11 amended: after updateItem(id, patch) succeeds with record R, the
\* entry found for getUid(R) holds R, stamped with the time of completion,
\* and a getSingleItem(getUid(R)) that follows is answered with R without a
\* backend call.
C11_UpdateThenFetchOneByReturnedUid ==
  [][ /\ UpdateSucceeds
         => LET found == First(allItems', last'.item[1].id)
            IN  /\ found # 0
                /\ allItems'[found].item = last'.item[1]
                /\ allItems'[found].lastFetched = now'
      /\ ( /\ last.op = "updateItem" /\ last.phase = "settled"
           /\ last.result = "value"
           /\ CallStep("getSingleItem") /\ last'.id = last.item[1].id )
         => ( /\ apiCalls' = apiCalls
              /\ timers' = timers
              /\ last'.result = "value"
              /\ last'.item = last.item ) ]_vars

\* C11 happens: after one updateItem and a cache window of waiting, a
\* getSingleItem was answered from the cache with the updated record
C11_Witness ==
  /\ last.op = "getSingleItem" /\ last.phase = "cached"
  /\ calls = 2 /\ apiCalls = 1 /\ Len(db) = 4
  /\ last.item # << >> /\ last.item[1].name = "X"
  /\ \E i \in 1..Len(allItems) :
       /\ allItems[i].item = last.item[1]
       /\ now - allItems[i].lastFetched = singleItemCacheMs

\* C12: lastFetchedAllItems changes only when getAllItems resumes after a
\* successful backend fetch, and then becomes the time of completion; no
\* other step of any operation changes it.
C12_OnlyFetchAllSetsLastFetched ==
  [][ lastFetchedAllItems' # lastFetchedAllItems
      => ( /\ SettleStep("getAllItems")
           /\ last'.backend = "ok"
           /\ lastFetchedAllItems' = now' ) ]_vars

\* C12 happens: saveItem() wrote a record back later than the last fetch of
\* all items, whose time stands
C12_Witness ==
  /\ last.op = "saveItem" /\ last.phase = "settled" /\ last.result = "value"
  /\ lastFetchedAllItems # Undefined
  /\ lastFetchedAllItems < now
  /\ \E i \in 1..Len(allItems) : allItems[i].lastFetched = now

\* a backend fetch of all items is pending in timers t
FetchAllPending(t) == \E i \in 1..Len(t) : t[i].op = "getAllItems"

\* C13: a getAllItems called while another one's backend fetch is pending,
\* with lastFetchedAllItems stale or unset, starts a backend fetch of its
\* own; and when a fetch succeeds that was started before another fetch
\* succeeded, the cache becomes exactly the records it returned.
C13_ConcurrentFetchAllLastWins ==
  [][ /\ ( /\ CallStep("getAllItems")
           /\ FetchAllPending(timers)
           /\ \/ lastFetchedAllItems = Undefined
              \/ now - lastFetchedAllItems > allItemsCacheMs )
         => ( /\ apiCalls' = apiCalls + 1
              /\ Len(SelectSeq(timers', LAMBDA t : t.op = "getAllItems"))
                   = Len(SelectSeq(timers, LAMBDA t : t.op = "getAllItems")) + 1 )
      /\ ( /\ SettleStep("getAllItems")
           /\ last'.backend = "ok"
           /\ lastFetchedAllItems # Undefined
           /\ lastFetchedAllItems >= Head(timers).due - ApiDelay )
         => ( /\ Items(allItems') = db
              /\ last'.items = allItems' ) ]_vars

\* C13 happens: a fetch of all items completed after another one that
\* completed while it was pending, and replaced entries that differed from
\* the records it returned
C13_Witness ==
  /\ last.op = "getAllItems" /\ last.phase = "settled" /\ last.result = "value"
  /\ last.prev # << >>
  /\ Items(last.prev) # db
  /\ Items(allItems) = db
  /\ \A i \in 1..Len(last.prev) : last.prev[i].lastFetched >= now - ApiDelay
  /\ Len(last.prev) >= 4

\* C14: a getAllItems that goes to the backend leaves gettingAllItems true
\* when it suspends; gettingAllItems is false right after a getAllItems
\* completes, from the cache, after a successful fetch or after a failed one.
C14_FetchingFlagLifecycle ==
  [][ /\ ( CallStep("getAllItems") /\ last'.phase = "issued" )
         => gettingAllItems'
      /\ ( CallStep("getAllItems") /\ last'.phase = "cached" )
         => ~gettingAllItems'
      /\ SettleStep("getAllItems") => ~gettingAllItems' ]_vars

\* C14 happens: a backend fetch of all items failed and the flag is false
C14_Witness ==
  /\ last.op = "getAllItems" /\ last.phase = "settled"
  /\ last.backend = "error"
  /\ ~gettingAllItems

\* C15 as stated: when the updateItem called by saveItem() fails, saving is
\* still true after saveItem() has gone on.
C15_SavingStuckAfterFailedSave ==
  [][ ( SettleStep("saveItem") /\ last'.backend = "error" )
      => saving' ]_vars

\* C15 amended: saving is true when saveItem() suspends on updateItem and
\* false once updateItem has settled, whether the backend update succeeded
\* or failed.
C15_SavingResetOnEveryOutcome ==
  [][ /\ ( CallStep("saveItem") /\ last'.phase = "issued" ) => saving'
      /\ SettleStep("saveItem")
         => ( /\ ~saving'
              /\ last'.backend \in {"ok", "error"}
              /\ bound' = bound ) ]_vars

\* C15 happens: the backend update of saveItem() failed and saving is false
C15_Witness ==
  /\ last.op = "saveItem" /\ last.phase = "settled"
  /\ last.backend = "error" /\ last.result = "undefined"
  /\ bound # << >>
  /\ ~saving

\* the operations that fetch or update one item through the backend
OneItemOps == {"getSingleItem", "get", "updateItem", "saveItem"}

\* C16: when a fetch or update of identifier id succeeds right after another
\* fetch or update of the same id succeeded, both having been pending
\* together, the cache holds exactly one entry for id and its item is the
\* record the later one returned.
C16_ConcurrentOneItemLastWins ==
  [][ ( /\ last.op \in OneItemOps /\ last.phase = "settled"
        /\ last.result = "value"
        /\ timers # << >> /\ timers' = Tail(timers)
        /\ Head(timers).op \in OneItemOps
        /\ Head(timers).id = last.id
        /\ last'.backend = "ok" )
      => ( /\ Count(allItems', last.id) = 1
           /\ allItems'[First(allItems', last.id)].item = last'.item[1] ) ]_vars

\* the entries of s whose identifier is id, in order
Same(s, id) == SelectSeq(s, LAMBDA e : e.item.id = id)

\* C17: when updateItem(id, item) succeeds with a record whose identifier is
\* not id, the entries for id keep their item and lastFetched, the entry
\* found for the record's identifier holds the record, and the entries of
\* all other identifiers stay as they were.
C17_UpdateUpsertsByReturnedUid ==
  [][ ( UpdateSucceeds /\ last'.item[1].id # Head(timers).id )
      => LET returned == last'.item[1]
             found == First(allItems', returned.id)
         IN  /\ Same(allItems', Head(timers).id) = Same(allItems, Head(timers).id)
             /\ found # 0
             /\ allItems'[found].item = returned
             /\ allItems'[found].lastFetched = now'
             /\ Others(allItems', returned.id) = Others(allItems, returned.id) ]_vars

\* C17 happens: an updateItem returned a record with another identifier
\* while the cache held an entry for the id it was called with
C17_Witness ==
  /\ last.op = "updateItem" /\ last.phase = "settled" /\ last.result = "value"
  /\ last.item[1].id # last.id
  /\ Count(allItems, last.id) = 1
  /\ allItems[First(allItems, last.id)].lastFetched < now
  /\ allItems[First(allItems, last.id)].item.name # "X"
  /\ allItems[First(allItems, last.id)].item \notin DbRecords

\* C18: get() leaves getting true when it suspends on the backend; when its
\* getSingleItem settles, the bound item is what getSingleItem returned and
\* getting is false: the org of db on success, undefined after a failure or
\* a miss, whatever was bound before.
C18_GetBindsResultAndResetsFlag ==
  [][ /\ ( CallStep("get") /\ last'.phase = "issued" )
         => ( getting' /\ bound' = bound )
      /\ ( CallStep("get") /\ last'.phase = "cached" )
         => ( /\ ~getting'
              /\ bound' = << allItems[First(allItems, BindingId)].item >> )
      /\ SettleStep("get")
         => ( /\ ~getting'
              /\ bound' = IF last'.backend = "ok"
                          THEN << db[DbIndex(Head(timers).id)] >>
                          ELSE << >> ) ]_vars

\* C18 happens: a get() that failed or found nothing unbound an item that
\* was bound before
C18_Witness ==
  /\ last.op = "get" /\ last.phase = "settled"
  /\ last.backend \in {"absent", "error"}
  /\ last.prev # << >>
  /\ bound = << >>
  /\ ~getting

\* C19: whenever a backend fetch of all items is pending, gettingAllItems is
\* true.
C19_FlagTrueWhileFetchAllPending ==
  FetchAllPending(timers) => gettingAllItems

\* C20: while at most singleItemCacheMs have passed since the last successful
\* fetch of all items, getSingleItem(id) for an id the cache holds makes no
\* backend call and returns the item of the first entry for id; called
\* right after that fetch, it returns the record the fetch returned for id.
C20_FetchOneServedFromFetchAll ==
  [][ /\ ( /\ CallStep("getSingleItem")
           /\ lastFetchedAllItems # Undefined
           /\ now - lastFetchedAllItems <= singleItemCacheMs
           /\ First(allItems, last'.id) # 0 )
         => ( /\ apiCalls' = apiCalls
              /\ timers' = timers
              /\ allItems' = allItems
              /\ last'.result = "value"
              /\ last'.item = << allItems[First(allItems, last'.id)].item >> )
      /\ ( /\ CallStep("getSingleItem")
           /\ last.op = "getAllItems" /\ last.phase = "settled"
           /\ last.result = "value"
           /\ First(last.items, last'.id) # 0 )
         => ( /\ apiCalls' = apiCalls
              /\ last'.item = << last.items[First(last.items, last'.id)].item >> ) ]_vars

\* C20 happens: exactly singleItemCacheMs after a fetch of all items, and
\* with no other operation in between, a getSingleItem was answered from an
\* entry that fetch wrote
C20_Witness ==
  /\ last.op = "getSingleItem" /\ last.phase = "cached"
  /\ calls = 2 /\ apiCalls = 1
  /\ lastFetchedAllItems # Undefined
  /\ now - lastFetchedAllItems = singleItemCacheMs
  /\ \E i \in 1..Len(allItems) :
       /\ allItems[i].item = last.item[1]
       /\ allItems[i].lastFetched = lastFetchedAllItems

=============================================================================
